---- MODULE Spec2Model ----
(***************************************************************************)
(* ffautocrop: crop detection by sampling.  crop_video probes the media,   *)
(* plans evenly spaced chunks, runs one external cropdetect process per    *)
(* chunk on a thread pool, merges the per-chunk Counters, picks the most   *)
(* common crop point and either skips or starts the encode.                *)
(*                                                                         *)
(* Time is counted in ticks of 0.1 ms, so that round(x, 3) (to the         *)
(* millisecond) and round(x) (to the second) are real roundings.           *)
(***************************************************************************)
EXTENDS Integers, Sequences, FiniteSets, TLC

VARIABLES
    entry,                      \* the function the caller invoked
    thread_pool_size,           \* multiprocessing.cpu_count() of the host (line 86)
    num_chunks,                 \* argument num_cropdetect_chunks / num_chunks
    requested,                  \* argument cropdetect_chunk_duration, in ticks
    media_duration,             \* what get_media_duration reports for the video, in ticks
    dims,                       \* what get_video_dimensions reports: <<width, height>>
    emits,                      \* emits[i]: the crop= events ffmpeg prints for chunk i, in order
    pc,                         \* position of the calling thread
    err,                        \* the exception that left the call, or "none"
    cropdetect_chunk_duration,  \* local of cropdetect_video (lines 65, 82), in ticks
    chunk_size,                 \* local of get_cropdetect_chunk_starts (line 27), in ticks
    chunk_starts,               \* the plan (line 84)
    proc,                       \* proc[i]: the cropdetect process of chunk i
    results,                    \* results[i]: the Counter returned by the worker of chunk i
    finished,                   \* chunk indices in the order their workers completed
    crop_points,                \* the merged Counter (lines 85, 96)
    consensus,                  \* crop_points[0][0] of crop_video (line 126)
    decision,                   \* "none", "Skip" or "Apply"
    crop_filter,                \* the four numbers of the crop= filter given to the encode
    ff,                         \* the encode process (line 155)
    returned,                   \* the return value of crop_video
    nProbe, nDetect, nEncode    \* external processes spawned so far, by kind

vars == <<entry, thread_pool_size, num_chunks, requested, media_duration, dims, emits,
          pc, err,
          cropdetect_chunk_duration, chunk_size, chunk_starts, proc, results,
          finished, crop_points, consensus, decision, crop_filter, ff, returned,
          nProbe, nDetect, nEncode>>

\* What the caller and the host fix for a run.
inputs == <<entry, thread_pool_size, num_chunks, requested, media_duration, dims, emits>>

----------------------------------------------------------------------------
(* Bounds of the model *)

MaxChunks == 2      \* largest chunk count requested
MaxCpus == 2        \* most processing units of the host
MaxObs == 2         \* most crop= events one chunk emits
MaxSec == 3         \* planner inputs range over durations around 0..MaxSec seconds

TicksPerSec == 10 * 1000
TicksPerMs == TicksPerSec \div 1000

----------------------------------------------------------------------------
(* Arithmetic *)

Abs(x) == IF x < 0 THEN -x ELSE x

Min(a, b) == IF a <= b THEN a ELSE b

\* The quotient num/den (den > 0) lies exactly half way between two multiples of unit.
IsTie(num, den, unit) == 2 * (num % (den * unit)) = den * unit

\* num/den rounded to a multiple of unit; an exact tie goes up iff `up`.
RoundTo(num, den, unit, up) ==
    LET d == den * unit
        q == num \div d
        r == num % d
    IN  unit * (IF 2 * r > d \/ (2 * r = d /\ up) THEN q + 1 ELSE q)

\* round(num/den, 3).  A decimal tie x.xxx5 has no exact binary float, so the
\* direction of a tie depends on the representation error: both are possible.
TieChoices(num, den) == IF IsTie(num, den, TicksPerMs) THEN BOOLEAN ELSE {FALSE}

Round3(num, den, up) == RoundTo(num, den, TicksPerMs, up)

\* round(num/den): to the nearest integer second, exact ties to the even one.
RoundInt(num, den) ==
    LET q == num \div (den * TicksPerSec)
    IN  RoundTo(num, den, TicksPerSec, q % 2 = 1)

----------------------------------------------------------------------------
(* collections.Counter: entries in insertion order *)

CounterKeys(c) == {c[i].key : i \in 1..Len(c)}

CounterGet(c, k) ==
    IF k \in CounterKeys(c)
    THEN c[CHOOSE i \in 1..Len(c) : c[i].key = k].count
    ELSE 0

CounterSet(c, k, v) ==
    IF k \in CounterKeys(c)
    THEN [i \in 1..Len(c) |-> IF c[i].key = k THEN [key |-> k, count |-> v] ELSE c[i]]
    ELSE Append(c, [key |-> k, count |-> v])

\* Counter(iterable): one count per element, keys in order of first occurrence.
RECURSIVE CounterOf(_)
CounterOf(s) ==
    IF s = <<>> THEN <<>>
    ELSE LET c == CounterOf(SubSeq(s, 1, Len(s) - 1))
             k == s[Len(s)]
         IN  CounterSet(c, k, CounterGet(c, k) + 1)

\* Faulty variant of AddCount: dict.update semantics, the later count replaces the sum.
AddCountOverwrite(c, e) == CounterSet(c, e.key, e.count)

\* self[elem] = count + self.get(elem, 0)
AddCount(c, e) == CounterSet(c, e.key, e.count + CounterGet(c, e.key))

\* Counter.update(other): add the counts of other, in other's order.
RECURSIVE CounterUpdate(_, _)
CounterUpdate(c, other) ==
    IF other = <<>> THEN c
    ELSE AddCount(CounterUpdate(c, SubSeq(other, 1, Len(other) - 1)), other[Len(other)])

\* Counter.most_common(1): max() over the items keeps the first maximal entry.
MostCommon1(c) ==
    IF c = <<>> THEN <<>>
    ELSE LET best == CHOOSE i \in 1..Len(c) :
                        /\ \A j \in 1..Len(c) : c[j].count <= c[i].count
                        /\ \A j \in 1..(i - 1) : c[j].count < c[i].count
         IN  <<c[best]>>

----------------------------------------------------------------------------
(* Pure parts of ffautocrop.py *)

\* Faulty variant of ArgumentError: a zero duration passes the check.
ArgumentErrorStrict(n, d3) ==
    IF n <= 0 THEN "ChunksLessThanOne"
    ELSE IF d3 < 0 THEN "DurationNotPositive"
    ELSE "none"

\* cropdetect_video, lines 63-67: the checks made before anything is spawned.
ArgumentError(n, d3) ==
    IF n <= 0 THEN "ChunksLessThanOne"
    ELSE IF d3 <= 0 THEN "DurationNotPositive"
    ELSE "none"

\* Faulty variant of ChunkedWithinSecond: the limit at half a second.
ChunkedWithinHalfSecond(cs) == 2 * cs < TicksPerSec

\* get_cropdetect_chunk_starts, line 28: the rounded chunk size is under one second.
ChunkedWithinSecond(cs) == cs < TicksPerSec

\* get_cropdetect_chunk_starts, lines 31-36: append round(current, 3), then advance.
\* The running sum of millisecond multiples is never a rounding tie.
RECURSIVE ChunkStartsLoop(_, _, _, _)
ChunkStartsLoop(acc, current, cs, left) ==
    IF left = 0 THEN acc
    ELSE ChunkStartsLoop(Append(acc, Round3(current, 1, FALSE)), current + cs, cs, left - 1)

\* Faulty variant of ChunkStarts: advance before appending, so the plan starts at cs.
ChunkStartsAfterAdvance(cs, n) == ChunkStartsLoop(<<>>, cs, cs, n)

ChunkStarts(cs, n) == ChunkStartsLoop(<<>>, 0, cs, n)

\* cropdetect_video, line 78: total_chunk_duration < 0.1 (slot in whole seconds).
TooManyChunks(slot) == slot * TicksPerSec < TicksPerSec \div 10

\* cropdetect_chunk, lines 44-45: the window handed to ffmpeg, -ss start -t length.
ChunkWindow(start, length) ==
    [from |-> Round3(start, 1, FALSE), to |-> Round3(start, 1, FALSE) + Round3(length, 1, FALSE)]

\* Faulty variant of MapOrder: results taken as they complete (imap_unordered).
CompletionOrder == finished

\* p.map returns the workers' results as a list in the order of its input
\* (MapResult._value[i] is set by index), whatever order they completed in.
MapOrder == [i \in 1..num_chunks |-> i]

\* Faulty variant of AllTasksDone: the caller goes on once one task is done.
SomeTaskDone(p) == \E i \in DOMAIN p : p[i] \in {"ok", "failed"}

\* p.map blocks until MapResult._number_left is 0: every task returned or raised.
AllTasksDone(p) == \A i \in DOMAIN p : p[i] \in {"ok", "failed"}

\* Faulty variant of MapRaises: a partial-success mode that fails only if every task failed.
MapRaisesOnlyIfAllFailed(p) == \A i \in DOMAIN p : p[i] = "failed"

\* p.map raises when any task raised (after all tasks are done).
MapRaises(p) == \E i \in DOMAIN p : p[i] = "failed"

\* cropdetect_video, lines 95-96: crop_points.update(points) for each result in order.
RECURSIVE MergeAll(_, _, _)
MergeAll(c, res, order) ==
    IF order = <<>> THEN c
    ELSE MergeAll(CounterUpdate(c, res[Head(order)]), res, Tail(order))

\* Faulty variant of ShouldSkip: either axis under the threshold is enough.
ShouldSkipEither(current_width, current_height, out_width, out_height) ==
    LET new_width == current_width - out_width
        new_height == current_height - out_height
    IN  Abs(current_width - new_width) < 10 \/ Abs(current_height - new_height) < 10

\* crop_video, lines 133-135.
ShouldSkip(current_width, current_height, out_width, out_height) ==
    LET new_width == current_width - out_width
        new_height == current_height - out_height
    IN  Abs(current_width - new_width) < 10 /\ Abs(current_height - new_height) < 10

\* crop_video, line 151: crop={out_width}:{out_height}:{start_crop_x}:{start_crop_y}
CropFilter(point) == <<point[1], point[2], point[3], point[4]>>

----------------------------------------------------------------------------
(* Inputs *)

SeqsUpTo(S, k) == UNION {[1..m -> S] : m \in 0..k}

NoRect == <<>>

RunRects == {<<1920, 800, 0, 140>>, <<8, 6, 2, 4>>}

DecisionRects ==
    {<<w, h, 3, 5>> : w \in {0, 9, 10, 11}, h \in {0, 9, 10}} \cup {<<1920, 800, 0, 140>>}

Dims == {<<1920, 1080>>, <<4, 4>>}

RunRequested == {-TicksPerSec, 0, 4, 6, TicksPerSec, 20 * TicksPerSec}

RunDurations == {0, 4000, 5000, 8000, 16000, 30000}

\* Runs that exercise validation and planning: a video with no crop= events.
ValidationInputs ==
    [n : -1..MaxChunks, req : RunRequested, dur : RunDurations,
     dims : {<<1920, 1080>>}, emits : {<<>>}, cpus : {1}]

\* Runs that exercise the pool and the merge.
SamplingInputs ==
    UNION {[n : {k}, req : {20 * TicksPerSec}, dur : {30000}, dims : {<<1920, 1080>>},
            emits : [1..k -> SeqsUpTo(RunRects, MaxObs)], cpus : 1..MaxCpus] :
           k \in 1..MaxChunks}

\* Runs that exercise the crop decision: one chunk, one event.
DecisionInputs ==
    [n : {1}, req : {20 * TicksPerSec}, dur : {30000}, dims : Dims,
     emits : {<<<<r>>>> : r \in DecisionRects}, cpus : {1}]

RunInputs == ValidationInputs \cup SamplingInputs \cup DecisionInputs

\* Durations around every whole second up to MaxSec, and half way between.
PlanOffsets == {-10, -6, -5, -4, -1, 0, 1, 4, 5, 6, 10, 5000}

PlanDurations ==
    {d \in {k * TicksPerSec + o : k \in 0..MaxSec, o \in PlanOffsets} : d >= 0}

Emitted(in, i) == IF i \in DOMAIN in.emits THEN in.emits[i] ELSE <<>>

InitWith(e, in, start) ==
    /\ entry = e
    /\ thread_pool_size = in.cpus
    /\ num_chunks = in.n
    /\ requested = in.req
    /\ media_duration = in.dur
    /\ dims = in.dims
    /\ emits = [i \in 1..in.n |-> Emitted(in, i)]
    /\ pc = start
    /\ err = "none"
    /\ cropdetect_chunk_duration = in.req
    /\ chunk_size = 0
    /\ chunk_starts = <<>>
    /\ proc = [i \in 1..in.n |-> "pending"]
    /\ results = [i \in 1..in.n |-> <<>>]
    /\ finished = <<>>
    /\ crop_points = <<>>
    /\ consensus = NoRect
    /\ decision = "none"
    /\ crop_filter = NoRect
    /\ ff = "none"
    /\ returned = "none"
    /\ nProbe = 0
    /\ nDetect = 0
    /\ nEncode = 0

\* crop_video(video_path, output_path, num_cropdetect_chunks, cropdetect_chunk_duration)
Init == \E in \in RunInputs : InitWith("crop_video", in, "cropdetect_video")

\* get_cropdetect_chunk_starts(video_path, num_chunks) called on its own
InitPlan ==
    \E n \in -1..MaxChunks, d \in PlanDurations :
        InitWith("get_cropdetect_chunk_starts",
                 [n |-> n, req |-> 0, dur |-> d, dims |-> <<1920, 1080>>, emits |-> <<>>,
                  cpus |-> 1],
                 "plan")

----------------------------------------------------------------------------
(* Actions *)

Raise(e) == pc' = "raised" /\ err' = e

\* cropdetect_video, lines 63-67: argument checks.
Validate ==
    /\ pc = "cropdetect_video"
    /\ \E up \in TieChoices(requested, 1) :
         LET d3 == Round3(requested, 1, up)
         IN  IF ArgumentError(num_chunks, d3) = "ChunksLessThanOne"
             THEN Raise("ChunksLessThanOne") /\ UNCHANGED cropdetect_chunk_duration
             ELSE IF ArgumentError(num_chunks, d3) = "DurationNotPositive"
             THEN Raise("DurationNotPositive") /\ cropdetect_chunk_duration' = d3
             ELSE pc' = "probe" /\ err' = err /\ cropdetect_chunk_duration' = d3
    /\ UNCHANGED <<inputs, chunk_size,
                   chunk_starts, proc, results, finished, crop_points, consensus,
                   decision, crop_filter, ff, returned, nProbe, nDetect, nEncode>>

\* cropdetect_video, lines 69-82: probe the duration, size the slot, cap the window.
ProbeDuration ==
    /\ pc = "probe"
    /\ nProbe' = nProbe + 1
    /\ LET total_chunk_duration == RoundInt(media_duration, num_chunks)
       IN  IF TooManyChunks(total_chunk_duration \div TicksPerSec)
           THEN Raise("TooManyChunks") /\ UNCHANGED cropdetect_chunk_duration
           ELSE /\ pc' = "plan"
                /\ err' = err
                /\ cropdetect_chunk_duration' =
                       Min(cropdetect_chunk_duration, total_chunk_duration)
    /\ UNCHANGED <<inputs, chunk_size,
                   chunk_starts, proc, results, finished, crop_points, consensus,
                   decision, crop_filter, ff, returned, nDetect, nEncode>>

\* get_cropdetect_chunk_starts, lines 21-36 (called at line 84, or on its own).
Plan ==
    /\ pc = "plan"
    /\ IF num_chunks <= 0
       THEN Raise("PlanChunksLessThanOne") /\ UNCHANGED <<chunk_size, chunk_starts, nProbe>>
       ELSE /\ nProbe' = nProbe + 1
            /\ \E up \in TieChoices(media_duration, num_chunks) :
                 LET cs == Round3(media_duration, num_chunks, up)
                 IN  /\ chunk_size' = cs
                     /\ IF ChunkedWithinSecond(cs)
                        THEN Raise("ChunkedWithinSecond") /\ UNCHANGED chunk_starts
                        ELSE /\ chunk_starts' = ChunkStarts(cs, num_chunks)
                             /\ err' = err
                             /\ pc' = IF entry = "crop_video" THEN "sampling" ELSE "done"
    /\ UNCHANGED <<inputs,
                   cropdetect_chunk_duration, proc, results, finished, crop_points,
                   consensus, decision, crop_filter, ff, returned, nDetect, nEncode>>

Running == {i \in DOMAIN proc : proc[i] = "running"}
Pending == {i \in DOMAIN proc : proc[i] = "pending"}

\* A free pool thread takes the next task of the queue and spawns its ffmpeg
\* (cropdetect_chunk, line 46).  With at most 4 * thread_pool_size chunks p.map
\* makes one task per chunk.
StartChunk(i) ==
    /\ pc = "sampling"
    /\ i \in Pending
    /\ \A j \in Pending : i <= j
    /\ Cardinality(Running) < thread_pool_size
    /\ proc' = [proc EXCEPT ![i] = "running"]
    /\ nDetect' = nDetect + 1
    /\ UNCHANGED <<inputs, pc, err,
                   cropdetect_chunk_duration, chunk_size, chunk_starts, results, finished,
                   crop_points, consensus, decision, crop_filter, ff, returned, nProbe,
                   nEncode>>

\* The ffmpeg of chunk i exits 0: its worker returns Counter(crops) (lines 47-51).
FinishChunk(i) ==
    /\ pc = "sampling"
    /\ i \in Running
    /\ proc' = [proc EXCEPT ![i] = "ok"]
    /\ results' = [results EXCEPT ![i] = CounterOf(emits[i])]
    /\ finished' = Append(finished, i)
    /\ UNCHANGED <<inputs, pc, err,
                   cropdetect_chunk_duration, chunk_size, chunk_starts, crop_points,
                   consensus, decision, crop_filter, ff, returned, nProbe, nDetect,
                   nEncode>>

\* The ffmpeg of chunk i exits non-zero: check_output raises in the worker (line 46).
FailChunk(i) ==
    /\ pc = "sampling"
    /\ i \in Running
    /\ proc' = [proc EXCEPT ![i] = "failed"]
    /\ finished' = Append(finished, i)
    /\ UNCHANGED <<inputs, pc, err,
                   cropdetect_chunk_duration, chunk_size, chunk_starts, results,
                   crop_points, consensus, decision, crop_filter, ff, returned, nProbe,
                   nDetect, nEncode>>

\* All tasks are done: p.map raises or returns, and the loop of lines 95-96 merges.
MapReturn ==
    /\ pc = "sampling"
    /\ AllTasksDone(proc)
    /\ IF MapRaises(proc)
       THEN Raise("CalledProcessError") /\ UNCHANGED crop_points
       ELSE /\ crop_points' = MergeAll(<<>>, results, MapOrder)
            /\ pc' = "merged"
            /\ err' = err
    /\ UNCHANGED <<inputs,
                   cropdetect_chunk_duration, chunk_size, chunk_starts, proc, results,
                   finished, consensus, decision, crop_filter, ff, returned, nProbe,
                   nDetect, nEncode>>

\* KeyboardInterrupt reaches the main thread while it waits in p.map: the with block
\* (line 94) calls ThreadPool.terminate(), which drops the queued tasks and neither
\* joins the worker threads nor touches their subprocesses; the interrupt goes on up.
Interrupt ==
    /\ pc = "sampling"
    /\ Raise("KeyboardInterrupt")
    /\ UNCHANGED <<inputs,
                   cropdetect_chunk_duration, chunk_size, chunk_starts, proc, results,
                   finished, crop_points, consensus, decision, crop_filter, ff, returned,
                   nProbe, nDetect, nEncode>>

\* crop_video, lines 120-155: pick the most common point, probe the dimensions, decide.
Select ==
    /\ pc = "merged"
    /\ LET top == MostCommon1(crop_points)
       IN  IF top = <<>>
           THEN /\ pc' = "done"
                /\ returned' = "False"
                /\ UNCHANGED <<consensus, decision, crop_filter, ff, nProbe, nEncode>>
           ELSE /\ consensus' = top[1].key
                /\ nProbe' = nProbe + 1
                /\ IF ShouldSkip(dims[1], dims[2], top[1].key[1], top[1].key[2])
                   THEN /\ decision' = "Skip"
                        /\ pc' = "done"
                        /\ returned' = "False"
                        /\ UNCHANGED <<crop_filter, ff, nEncode>>
                   ELSE /\ decision' = "Apply"
                        /\ crop_filter' = CropFilter(top[1].key)
                        /\ ff' = "running"
                        /\ nEncode' = nEncode + 1
                        /\ pc' = "encoding"
                        /\ returned' = returned
    /\ UNCHANGED <<inputs, err,
                   cropdetect_chunk_duration, chunk_size, chunk_starts, proc, results,
                   finished, crop_points, nDetect>>

\* crop_video, lines 156-159: the encode exits; non-zero is a crop error.
EncodeExit(code) ==
    /\ pc = "encoding"
    /\ ff = "running"
    /\ ff' = IF code = 0 THEN "exited0" ELSE "exited1"
    /\ IF code = 0
       THEN pc' = "done" /\ returned' = "True" /\ err' = err
       ELSE Raise("CropError") /\ returned' = returned
    /\ UNCHANGED <<inputs,
                   cropdetect_chunk_duration, chunk_size, chunk_starts, proc, results,
                   finished, crop_points, consensus, decision, crop_filter, nProbe,
                   nDetect, nEncode>>

\* utils.wait_all, lines 14-28: KeyboardInterrupt while waiting for the encode:
\* terminate it, wait for it, re-raise.
InterruptEncode ==
    /\ pc = "encoding"
    /\ ff = "running"
    /\ ff' = "terminated"
    /\ Raise("KeyboardInterrupt")
    /\ UNCHANGED <<inputs,
                   cropdetect_chunk_duration, chunk_size, chunk_starts, proc, results,
                   finished, crop_points, consensus, decision, crop_filter, returned,
                   nProbe, nDetect, nEncode>>

Next ==
    \/ Validate
    \/ ProbeDuration
    \/ Plan
    \/ \E i \in 1..MaxChunks : StartChunk(i)
    \/ \E i \in 1..MaxChunks : FinishChunk(i)
    \/ \E i \in 1..MaxChunks : FailChunk(i)
    \/ MapReturn
    \/ Interrupt
    \/ Select
    \/ \E code \in {0, 1} : EncodeExit(code)
    \/ InterruptEncode

Spec == Init /\ [][Next]_vars

NextPlan == Plan

SpecPlan == InitPlan /\ [][NextPlan]_vars

----------------------------------------------------------------------------
(* Properties *)

Range(f) == {f[i] : i \in DOMAIN f}

\* Number of times rectangle r is emitted by chunks 1..i.
RECURSIVE ObsCount(_, _)
ObsCount(r, i) ==
    IF i <= 0 THEN 0
    ELSE ObsCount(r, i - 1) + Cardinality({j \in 1..Len(emits[i]) : emits[i][j] = r})

\* Number of events emitted by chunks 1..i.
RECURSIVE TotalObs(_)
TotalObs(i) == IF i <= 0 THEN 0 ELSE TotalObs(i - 1) + Len(emits[i])

RECURSIVE CounterTotal(_)
CounterTotal(c) == IF c = <<>> THEN 0 ELSE c[1].count + CounterTotal(Tail(c))

AllEmitted == UNION {Range(emits[i]) : i \in DOMAIN emits}

\* The lowest-indexed chunk that emits r.
FirstChunk(r) ==
    CHOOSE i \in DOMAIN emits :
        /\ r \in Range(emits[i])
        /\ \A j \in 1..(i - 1) : r \notin Range(emits[j])

\* cropdetect_video has returned its table to crop_video.
SamplingReturned == pc \in {"merged", "encoding", "done"} \/ ff # "none"

\* crop_video has gone past the most_common(1) test.
Selected == pc \in {"encoding", "done"} \/ ff # "none"

MaxCount == CHOOSE m \in {crop_points[i].count : i \in 1..Len(crop_points)} :
                \A i \in 1..Len(crop_points) : crop_points[i].count <= m

Tied == {r \in CounterKeys(crop_points) : CounterGet(crop_points, r) = MaxCount}

\* C1: whatever the order in which the chunk workers complete, the table
\* cropdetect_video returns has the union of the per-chunk keys, each count the
\* sum of that rectangle's per-chunk counts, and a total equal to the number of
\* events emitted across all chunks.
C1_MergeIsLossless ==
    SamplingReturned =>
        /\ CounterKeys(crop_points) = AllEmitted
        /\ Cardinality(CounterKeys(crop_points)) = Len(crop_points)
        /\ \A r \in AllEmitted \cup RunRects :
               CounterGet(crop_points, r) = ObsCount(r, num_chunks)
        /\ CounterTotal(crop_points) = TotalObs(num_chunks)

\* C1 witness: a merged table where a later chunk completed first and two chunks
\* emitted the same rectangle.
C1_Witness ==
    /\ SamplingReturned
    /\ Len(finished) >= 2
    /\ finished[1] > finished[2]
    /\ \E r \in RunRects : r \in Range(emits[1]) /\ r \in Range(emits[2])

\* C2: among the rectangles tied for the highest count, crop_video picks the one
\* whose first occurrence is in the lowest-indexed chunk, whatever the order in
\* which the workers finished.
C2_TieBreakByChunkIndex ==
    consensus # NoRect =>
        /\ consensus \in Tied
        /\ \A r \in Tied : FirstChunk(consensus) <= FirstChunk(r)

\* C2 witness: two rectangles tie, and the worker of the chunk that first emits
\* the losing one finished before any other.
C2_Witness ==
    /\ consensus # NoRect
    /\ \E r \in Tied :
          /\ r # consensus
          /\ FirstChunk(r) > FirstChunk(consensus)
          /\ finished[1] = FirstChunk(r)

\* C3: once the crop detection of one chunk has failed, cropdetect_video returns
\* no table: the successful chunks' tables are not merged, crop_video takes no
\* crop/skip decision, probes no dimensions and never starts the encode.
C3_ChunkFailureFailsAll ==
    (\E i \in DOMAIN proc : proc[i] = "failed") =>
        /\ pc \in {"sampling", "raised"}
        /\ pc = "raised" => err \in {"CalledProcessError", "KeyboardInterrupt"}
        /\ crop_points = <<>>
        /\ consensus = NoRect
        /\ decision = "none"
        /\ returned = "none"
        /\ ff = "none"
        /\ nEncode = 0
        /\ nProbe = 2

\* C3 witness: the call has raised the chunk failure although another chunk
\* succeeded with observations.
C3_Witness ==
    /\ pc = "raised"
    /\ err = "CalledProcessError"
    /\ \E i \in DOMAIN proc : proc[i] = "ok" /\ results[i] # <<>>

\* C4: when an interrupt has propagated out of the sampling call, no cropdetect
\* process owned by a worker is still running without having been signaled.
C4_InterruptSignalsWorkers ==
    (pc = "raised" /\ err = "KeyboardInterrupt") =>
        \A i \in DOMAIN proc : proc[i] # "running"

PlanCalled == entry = "get_cropdetect_chunk_starts" /\ pc # "plan"

\* cs is a millisecond multiple nearest to d/n.
IsRoundedQuotient(cs, d, n) ==
    /\ cs % TicksPerMs = 0
    /\ 2 * Abs(cs * n - d) <= n * TicksPerMs

\* C5: for duration > 0 and numChunks >= 1 with duration/numChunks >= 1,
\* get_cropdetect_chunk_starts returns exactly numChunks offsets, the first 0,
\* non-decreasing, consecutive ones separated by the chunk size
\* round(duration/numChunks, 3), offset i being i times the chunk size.
C5_PlanCoverage ==
    (/\ PlanCalled
     /\ media_duration > 0
     /\ num_chunks >= 1
     /\ media_duration >= num_chunks * TicksPerSec) =>
        /\ pc = "done"
        /\ err = "none"
        /\ IsRoundedQuotient(chunk_size, media_duration, num_chunks)
        /\ Len(chunk_starts) = num_chunks
        /\ chunk_starts[1] = 0
        /\ \A i \in 1..num_chunks : chunk_starts[i] = (i - 1) * chunk_size
        /\ \A i \in 1..(num_chunks - 1) :
               /\ chunk_starts[i] <= chunk_starts[i + 1]
               /\ chunk_starts[i + 1] - chunk_starts[i] = chunk_size

\* C5 witness: a plan of several chunks whose chunk size was really rounded.
C5_Witness ==
    /\ PlanCalled
    /\ pc = "done"
    /\ num_chunks >= 2
    /\ chunk_size * num_chunks # media_duration

\* C6 as stated: get_cropdetect_chunk_starts raises, returning no plan, whenever
\* numChunks <= 0 and whenever duration/numChunks < 1.
C6_PlanRejectsUnderOneSecond ==
    (PlanCalled /\ (num_chunks <= 0 \/ media_duration < num_chunks * TicksPerSec)) =>
        pc = "raised" /\ chunk_starts = <<>>

\* C6 amended: get_cropdetect_chunk_starts raises, returning no plan, whenever
\* numChunks <= 0 and whenever duration/numChunks is below 0.9995 s (so that it
\* rounds to less than 1.000); a quotient above 0.9995 s is accepted.
C6_PlanRejectsRoundedUnderOneSecond ==
    PlanCalled =>
        /\ (num_chunks <= 0 \/
            2 * media_duration < (2 * TicksPerSec - TicksPerMs) * num_chunks) =>
               /\ pc = "raised"
               /\ err \in {"PlanChunksLessThanOne", "ChunkedWithinSecond"}
               /\ chunk_starts = <<>>
        /\ (num_chunks >= 1 /\
            2 * media_duration > (2 * TicksPerSec - TicksPerMs) * num_chunks) =>
               /\ pc = "done"
               /\ Len(chunk_starts) = num_chunks

\* C6 witness: a call rejected for a quotient just under the limit.
C6_Witness ==
    /\ PlanCalled
    /\ err = "ChunkedWithinSecond"
    /\ num_chunks >= 1
    /\ 2 * media_duration >= (2 * TicksPerSec - 3 * TicksPerMs) * num_chunks

InvalidArgument ==
    {"ChunksLessThanOne", "DurationNotPositive", "TooManyChunks", "ChunkedWithinSecond",
     "PlanChunksLessThanOne"}

NothingSpawned == nProbe = 0 /\ nDetect = 0 /\ nEncode = 0

\* C7 as stated: every invalid-argument error of a run is raised before any
\* external process (probe, crop detection, encode) has been spawned.
C7_InvalidArgumentBeforeAnySpawn ==
    err \in InvalidArgument => NothingSpawned

\* C7 amended: a chunk count <= 0 or an analysis duration that is not positive is
\* always rejected, and before any external process has been spawned; the errors
\* that depend on the duration (too many chunks, chunk size under one second) are
\* raised after the duration probe has run (once, respectively twice) and before
\* any crop-detection or encode process has been spawned.
C7_InvalidArgumentBeforeDetection ==
    /\ (pc # "cropdetect_video" /\ (num_chunks <= 0 \/ cropdetect_chunk_duration <= 0)) =>
           /\ pc = "raised"
           /\ err \in {"ChunksLessThanOne", "DurationNotPositive"}
    /\ err \in {"ChunksLessThanOne", "DurationNotPositive"} => NothingSpawned
    /\ err = "TooManyChunks" => nProbe = 1 /\ nDetect = 0 /\ nEncode = 0
    /\ err = "ChunkedWithinSecond" => nProbe = 2 /\ nDetect = 0 /\ nEncode = 0

\* C7 witness: the too-many-chunks error, raised after the duration probe.
C7_Witness == pc = "raised" /\ err = "TooManyChunks" /\ nProbe = 1

\* C8: in a run that passed validation the effective analysis duration is > 0 and
\* no chunk's analysis window runs past the next planned offset.
C8_WindowsNeverOverlap ==
    (entry = "crop_video" /\ pc = "sampling") =>
        /\ cropdetect_chunk_duration > 0
        /\ \A i \in 1..(num_chunks - 1) :
               ChunkWindow(chunk_starts[i], cropdetect_chunk_duration).to
                   <= ChunkWindow(chunk_starts[i + 1], cropdetect_chunk_duration).from

C10_EncodeOnlyOnApply ==
    /\ nEncode <= 1
    /\ (nEncode = 1 \/ ff # "none") =>
           /\ \A i \in DOMAIN proc : proc[i] = "ok"
           /\ Len(finished) = num_chunks
           /\ decision = "Apply"
    /\ (Selected /\ (crop_points = <<>> \/ decision = "Skip")) =>
           /\ pc = "done"
           /\ returned = "False"
           /\ err = "none"
           /\ nEncode = 0
           /\ ff = "none"

\* C10 witness: the encode ran once and exited 0 after chunks that completed out
\* of index order.
C10_Witness ==
    /\ ff = "exited0"
    /\ returned = "True"
    /\ nEncode = 1
    /\ Len(finished) >= 2
    /\ finished[1] # 1

====
